---- MODULE Spec2Model ----
(***************************************************************************)
(* Model of backend/app/services/csp_scheduler.py: the CSP class           *)
(* (is_consistent, backtrack) and generate_schedule.                       *)
(*                                                                         *)
(* Python values are modelled as follows.                                  *)
(*   str   a sequence of one-character strings ("Day1" is <<"D","a","y",   *)
(*         "1">>), so that formatting, split, replace and int() are        *)
(*         computed and not assumed;                                       *)
(*   dict  an insertion-ordered sequence of <<key, value>> pairs (CPython  *)
(*         dicts iterate in insertion order; a deleted key that is set     *)
(*         again goes to the end);                                         *)
(*   list  a sequence;                                                     *)
(*   date  an integer day ordinal, so (end_date - start_date).days is the  *)
(*         integer difference.                                             *)
(* The recursion of CSP.backtrack is an explicit stack of frames, one per  *)
(* active invocation, each holding its selected variable and the position  *)
(* of its for loop.  A step of the for loop runs over the values that      *)
(* is_consistent rejects (which change nothing) up to the next value it    *)
(* accepts or to the end of the domain.                                    *)
(***************************************************************************)
EXTENDS Integers, Sequences, FiniteSets, TLC

\* ------------------------------------------------------------------------
\* Bounds of the model
\* ------------------------------------------------------------------------
MaxActs == 4        \* longest activity list supplied by the caller
MaxDate == 3        \* latest end_date, as a day ordinal
MaxPerDay == 2      \* largest explicit "max_per_day" value
MaxFoodAfter == 2   \* largest explicit "food_after_slot" value
ShortMaxActs == 3   \* longest activity list of the calls examined step by step
MaxItineraryId == 2 \* largest itinerary_id the itineraries table hands out
PairMaxActs == 2    \* longest activity list of two calls running at once
DefaultsMaxActs == 3 \* longest activity list of the calls compared on defaults

\* ------------------------------------------------------------------------
\* Program constants
\* ------------------------------------------------------------------------
DefaultMaxPerDay == 3      \* constraints.get("max_per_day", 3)
DefaultFoodAfterSlot == 1  \* constraints.get("food_after_slot", 1)

\* ------------------------------------------------------------------------
\* Input universe
\* ------------------------------------------------------------------------
\* Activity records: dicts with a name and a category.  Two records are the
\* same value iff all their fields are equal.
ActivityRecords ==
    [name : {"Museum", "Lunch"}, category : {"sight", "food"}]

RECURSIVE SeqsUpTo(_, _)
SeqsUpTo(S, n) ==
    IF n = 0 THEN {<<>>}
    ELSE LET shorter == SeqsUpTo(S, n - 1)
         IN  shorter \cup {Append(s, x) : s \in {t \in shorter : Len(t) = n - 1},
                                         x \in S}

ActivityLists == SeqsUpTo(ActivityRecords, MaxActs)

\* Constraint configurations: dicts over the two recognised keys, each of
\* which may be absent.
OptionValues(k) ==
    IF k = "max_per_day" THEN (-1) .. MaxPerDay ELSE 0 .. MaxFoodAfter

ConstraintKeys == {"max_per_day", "food_after_slot"}

AllOptionValues == UNION {OptionValues(k) : k \in ConstraintKeys}

ConstraintConfigs ==
    UNION {{c \in [K -> AllOptionValues] : \A k \in K : c[k] \in OptionValues(k)} :
              K \in SUBSET ConstraintKeys}

\* ------------------------------------------------------------------------
\* Python strings
\* ------------------------------------------------------------------------
StrDay == <<"D", "a", "y">>
StrSlot == <<"S", "l", "o", "t">>
StrUnderscore == <<"_">>
StrMessage == <<"m", "e", "s", "s", "a", "g", "e">>
StrEmpty == <<>>

DigitChars == <<"0", "1", "2", "3", "4", "5", "6", "7", "8", "9">>

\* f"{n}" for an int n
RECURSIVE FormatInt(_)
FormatInt(n) ==
    IF n < 0 THEN <<"-">> \o FormatInt(-n)
    ELSE IF n < 10 THEN <<DigitChars[n + 1]>>
    ELSE FormatInt(n \div 10) \o <<DigitChars[(n % 10) + 1]>>

DigitValue(c) == (CHOOSE i \in DOMAIN DigitChars : DigitChars[i] = c) - 1

\* int(s) for a string of decimal digits
RECURSIVE ParseInt(_)
ParseInt(s) ==
    IF Len(s) = 1 THEN DigitValue(s[1])
    ELSE 10 * ParseInt(SubSeq(s, 1, Len(s) - 1)) + DigitValue(s[Len(s)])

\* s.split(sep) for a one-character separator
RECURSIVE Split(_, _)
Split(s, sep) ==
    IF \A i \in DOMAIN s : <<s[i]>> # sep THEN <<s>>
    ELSE LET i == CHOOSE j \in DOMAIN s :
                      /\ <<s[j]>> = sep
                      /\ \A k \in 1 .. (j - 1) : <<s[k]>> # sep
         IN  <<SubSeq(s, 1, i - 1)>> \o Split(SubSeq(s, i + 1, Len(s)), sep)

\* s.replace(old, new) for a non-empty old
RECURSIVE Replace(_, _, _)
Replace(s, old, new) ==
    IF Len(s) < Len(old) THEN s
    ELSE IF SubSeq(s, 1, Len(old)) = old
         THEN new \o Replace(SubSeq(s, Len(old) + 1, Len(s)), old, new)
         ELSE <<s[1]>> \o Replace(Tail(s), old, new)

\* ------------------------------------------------------------------------
\* Python dicts (insertion ordered)
\* ------------------------------------------------------------------------
DictKeys(d) == {d[i][1] : i \in DOMAIN d}

DictValues(d) == [i \in DOMAIN d |-> d[i][2]]

DictGet(d, k) == d[CHOOSE i \in DOMAIN d : d[i][1] = k][2]

\* Mutation of DictSet: the entry is not stored.
DictSet_dropped(d, k, v) == d

\* d[k] = v
DictSet(d, k, v) ==
    IF k \in DictKeys(d)
    THEN [i \in DOMAIN d |-> IF d[i][1] = k THEN <<k, v>> ELSE d[i]]
    ELSE Append(d, <<k, v>>)

\* Mutation of DictDel: the entry is left in place.
DictDel_kept(d, k) == d

\* del d[k]
DictDel(d, k) == SelectSeq(d, LAMBDA e : e[1] # k)

\* Mutation of Get: an omitted key reads as 0, whatever the default.
Get_default_ignored(c, k, default) == IF k \in DOMAIN c THEN c[k] ELSE 0

\* c.get(k, default) on the constraints configuration, whose order is never
\* observed and which is therefore a function from its keys
Get(c, k, default) == IF k \in DOMAIN c THEN c[k] ELSE default

\* ------------------------------------------------------------------------
\* State
\* ------------------------------------------------------------------------
VARIABLES
    activities,    \* argument: the ordered activity list
    start_date,    \* argument
    end_date,      \* argument
    constraints,   \* argument: the constraints configuration
    pc,            \* position of the call: "start", "call", "loop", "return", "done"
    variables,     \* csp.variables
    domains,       \* csp.domains
    assignment,    \* csp.assignment
    stack,         \* active backtrack invocations, innermost last: [var, i,
                   \* entry], entry recording the assignment found on entry
    ret,           \* value returned by the last backtrack invocation that returned
    output,        \* value returned by generate_schedule
    running,       \* which call of generate_schedule the variables above belong to
    parked,        \* the other calls in the process: call -> its own copy of the
                   \* variables above
    itineraries,   \* table of itineraries: itinerary_id -> [user_id, title]
    links,         \* itinerary/city association rows: <<itinerary_id, city_id>>
    request,       \* the router request handled last
    response       \* its status code

call == <<activities, start_date, end_date, constraints, pc, variables, domains,
          assignment, stack, ret, output>>

callers == <<running, parked>>

router == <<itineraries, links, request, response>>

vars == <<call, callers, router>>

inputs == <<activities, start_date, end_date, constraints>>

\* ------------------------------------------------------------------------
\* generate_schedule: problem formulation
\* ------------------------------------------------------------------------
num_days == (end_date - start_date) + 1

max_per_day == Get(constraints, "max_per_day", DefaultMaxPerDay)

\* f"Day{d+1}_Slot{slot+1}"
VarName(d, slot) ==
    StrDay \o FormatInt(d + 1) \o StrUnderscore \o StrSlot \o FormatInt(slot + 1)

\* for slot in range(m): variables.append(...)
RECURSIVE SlotLoop(_, _, _)
SlotLoop(d, slot, m) ==
    IF slot >= m THEN <<>>
    ELSE <<VarName(d, slot)>> \o SlotLoop(d, slot + 1, m)

\* for d in range(n): for slot in range(m): ...
RECURSIVE DayLoop(_, _, _)
DayLoop(d, n, m) ==
    IF d >= n THEN <<>>
    ELSE SlotLoop(d, 0, m) \o DayLoop(d + 1, n, m)

MakeVariables(n, m) == DayLoop(0, n, m)

\* Mutation of MakeDomains: every domain holds the activities in reverse order.
MakeDomains_reversed(vs, acts) ==
    [var \in {vs[i] : i \in DOMAIN vs} |->
        [i \in DOMAIN acts |-> acts[Len(acts) + 1 - i]]]

\* {var: activities.copy() for var in variables}
MakeDomains(vs, acts) == [var \in {vs[i] : i \in DOMAIN vs} |-> acts]

\* ------------------------------------------------------------------------
\* Constraints
\* ------------------------------------------------------------------------
\* Mutation of no_duplicate: only the most recently assigned value is compared.
no_duplicate_last_only(asg, var, value) ==
    asg = <<>> \/ DictValues(asg)[Len(asg)] # value

\* value not in assignment.values()
no_duplicate(asg, var, value) ==
    \A i \in DOMAIN asg : DictValues(asg)[i] # value

\* Mutation of SlotNo: the day part of the label is parsed, not the slot part.
SlotNo_from_day(var) ==
    ParseInt(Replace(Split(var, StrUnderscore)[1], StrDay, StrEmpty))

\* int(var.split("_")[1].replace("Slot", ""))
SlotNo(var) == ParseInt(Replace(Split(var, StrUnderscore)[2], StrSlot, StrEmpty))

\* Mutation of food_after_slot: the comparison is reversed.
food_after_slot_reversed(asg, var, value) ==
    IF value.category = "food"
    THEN SlotNo(var) <= Get(constraints, "food_after_slot", DefaultFoodAfterSlot)
    ELSE TRUE

food_after_slot(asg, var, value) ==
    IF value.category = "food"
    THEN SlotNo(var) >= Get(constraints, "food_after_slot", DefaultFoodAfterSlot)
    ELSE TRUE

\* Mutation of is_consistent: no_duplicate is missing from constraints_list.
is_consistent_food_only(var, value) ==
    food_after_slot(assignment, var, value)

\* Mutation of is_consistent: food_after_slot is missing from constraints_list.
is_consistent_duplicates_only(var, value) ==
    no_duplicate(assignment, var, value)

\* constraints_list = [no_duplicate, food_after_slot], evaluated in order
is_consistent(var, value) ==
    /\ no_duplicate(assignment, var, value)
    /\ food_after_slot(assignment, var, value)

\* ------------------------------------------------------------------------
\* CSP.backtrack
\* ------------------------------------------------------------------------
\* Mutation of AllAssigned: the search stops one variable early.
AllAssigned_one_early(asg, vs) == Len(asg) >= Len(vs) - 1

\* len(self.assignment) == len(self.variables)
AllAssigned(asg, vs) == Len(asg) = Len(vs)

\* Mutation of SelectVar: the last unassigned variable is taken, not the first.
SelectVar_last(asg, vs) ==
    LET unassigned == SelectSeq(vs, LAMBDA v : v \notin DictKeys(asg))
    IN  unassigned[Len(unassigned)]

\* [v for v in self.variables if v not in self.assignment][0]
SelectVar(asg, vs) == SelectSeq(vs, LAMBDA v : v \notin DictKeys(asg))[1]

\* Truth value of what backtrack returned: None is false, and the returned
\* dict is self.assignment itself, false when empty.
Truthy(r, asg) == r = "assignment" /\ Len(asg) > 0

Top == stack[Len(stack)]

Pop(st) == SubSeq(st, 1, Len(st) - 1)

\* Mutation of NextValue: the for loop stays at the value it has just undone.
NextValue_stuck(st) == st

\* the innermost for loop moves on to the value after the current one
NextValue(st) == [st EXCEPT ![Len(st)].i = @ + 1]

SetLoopIndex(st, j) == [st EXCEPT ![Len(st)].i = j]

\* Mutation of ConsistentFrom: the for loop skips the value at its position.
ConsistentFrom_skip_one(var, i) ==
    {j \in (i + 1) .. Len(domains[var]) : is_consistent(var, domains[var][j])}

\* positions from i on, in self.domains[var], of the values is_consistent accepts
ConsistentFrom(var, i) ==
    {j \in i .. Len(domains[var]) : is_consistent(var, domains[var][j])}

FirstConsistent(var, i) ==
    LET accepted == ConsistentFrom(var, i)
    IN  CHOOSE j \in accepted : \A k \in accepted : j <= k

\* ------------------------------------------------------------------------
\* Result formatting
\* ------------------------------------------------------------------------
NoSolution == << <<StrMessage, "No valid schedule found for given constraints">> >>

\* Mutation of ListAppend: the activity is inserted at the head of the list.
ListAppend_at_head(list, activity) == <<activity>> \o list

\* final[day_key].append(activity)
ListAppend(list, activity) == Append(list, activity)

\* for var, activity in result.items(): ...
RECURSIVE FormatLoop(_, _)
FormatLoop(items, final) ==
    IF items = <<>> THEN final
    ELSE LET var == items[1][1]
             activity == items[1][2]
             day_key == Split(var, StrUnderscore)[1]
             final1 == IF day_key \notin DictKeys(final)
                       THEN DictSet(final, day_key, <<>>)
                       ELSE final
             final2 == DictSet(final1, day_key,
                               ListAppend(DictGet(final1, day_key), activity))
         IN  FormatLoop(Tail(items), final2)

FormatDays(result) == FormatLoop(result, <<>>)

\* ------------------------------------------------------------------------
\* What surrounds a call
\* ------------------------------------------------------------------------
\* No other call of generate_schedule is in progress.
OneCall ==
    /\ running = "only"
    /\ parked = <<>>

\* The router has handled no request and its tables are empty.
NoRequestYet ==
    /\ itineraries = {}
    /\ links = {}
    /\ request = [op |-> "none"]
    /\ response = 0

\* ------------------------------------------------------------------------
\* Initial states: a call of generate_schedule with its arguments
\* ------------------------------------------------------------------------
\* Only end_date - start_date is read (line 38): start_date is day 2 and
\* end_date ranges from two days before it (an inverted range, num_days = -1)
\* to MaxDate.
Init ==
    /\ activities \in ActivityLists
    /\ start_date = 2
    /\ end_date \in 0 .. MaxDate
    /\ constraints \in ConstraintConfigs
    /\ pc = "start"
    /\ variables = <<>>
    /\ domains = <<>>
    /\ assignment = <<>>
    /\ stack = <<>>
    /\ ret = "none"
    /\ output = <<>>
    /\ OneCall
    /\ NoRequestYet

\* ------------------------------------------------------------------------
\* Steps
\* ------------------------------------------------------------------------
\* Lines 38-68: build variables and domains, construct the CSP, call backtrack.
Formulate ==
    /\ pc = "start"
    /\ variables' = MakeVariables(num_days, max_per_day)
    /\ domains' = MakeDomains(variables', activities)
    /\ assignment' = <<>>
    /\ pc' = "call"
    /\ UNCHANGED <<inputs, stack, ret, output>>
    /\ UNCHANGED <<callers, router>>

\* Lines 20-21: everything assigned, return self.assignment.
BacktrackComplete ==
    /\ pc = "call"
    /\ AllAssigned(assignment, variables)
    /\ ret' = "assignment"
    /\ pc' = "return"
    /\ UNCHANGED <<inputs, variables, domains, assignment, stack, output>>
    /\ UNCHANGED <<callers, router>>

\* Line 24: select the next unassigned variable and enter the for loop.
BacktrackSelect ==
    /\ pc = "call"
    /\ ~AllAssigned(assignment, variables)
    /\ stack' = Append(stack, [var |-> SelectVar(assignment, variables), i |-> 1,
                                entry |-> assignment])
    /\ pc' = "loop"
    /\ UNCHANGED <<inputs, variables, domains, assignment, ret, output>>
    /\ UNCHANGED <<callers, router>>

\* Lines 26-29: the for loop runs from its current position over the values
\* that is_consistent rejects, up to the first value it accepts; that value is
\* assigned and backtrack is called.
TryValue ==
    /\ pc = "loop"
    /\ ConsistentFrom(Top.var, Top.i) # {}
    /\ LET var == Top.var
           j == FirstConsistent(var, Top.i)
           value == domains[var][j]
       IN  /\ assignment' = DictSet(assignment, var, value)
           /\ stack' = SetLoopIndex(stack, j)
    /\ pc' = "call"
    /\ UNCHANGED <<inputs, variables, domains, ret, output>>
    /\ UNCHANGED <<callers, router>>

\* Lines 26-27, 33: is_consistent rejects every remaining value, the for loop
\* ends and the invocation returns None.
LoopExhausted ==
    /\ pc = "loop"
    /\ ConsistentFrom(Top.var, Top.i) = {}
    /\ stack' = Pop(stack)
    /\ ret' = "None"
    /\ pc' = "return"
    /\ UNCHANGED <<inputs, variables, domains, assignment, output>>
    /\ UNCHANGED <<callers, router>>

\* Lines 29-32: the recursive call returned to the invocation that made it.
ReturnToCaller ==
    /\ pc = "return"
    /\ stack # <<>>
    /\ IF Truthy(ret, assignment)
       THEN /\ stack' = Pop(stack)
            /\ UNCHANGED <<assignment, pc>>
       ELSE /\ assignment' = DictDel(assignment, Top.var)
            /\ stack' = NextValue(stack)
            /\ pc' = "loop"
    /\ UNCHANGED <<inputs, variables, domains, ret, output>>
    /\ UNCHANGED <<callers, router>>

\* Lines 68-81: the outermost call returned to generate_schedule.
Finish ==
    /\ pc = "return"
    /\ stack = <<>>
    /\ output' = IF ~Truthy(ret, assignment)
                 THEN NoSolution
                 ELSE FormatDays(assignment)
    /\ pc' = "done"
    /\ UNCHANGED <<inputs, variables, domains, assignment, stack, ret>>
    /\ UNCHANGED <<callers, router>>

Next ==
    \/ Formulate
    \/ BacktrackComplete
    \/ BacktrackSelect
    \/ TryValue
    \/ LoopExhausted
    \/ ReturnToCaller
    \/ Finish

Spec == Init /\ [][Next]_vars

\* The calls whose search is examined step by step are those with at most
\* ShortMaxActs activities.
ShortInit == Init /\ Len(activities) <= ShortMaxActs

SearchSpec == ShortInit /\ [][Next]_vars

\* The call runs on one thread and nothing it does blocks: whenever a step is
\* possible, a step is eventually taken.
FairSpec == SearchSpec /\ WF_vars(Next)

\* ------------------------------------------------------------------------
\* Several calls of generate_schedule in one process
\* ------------------------------------------------------------------------
\* What a call owns: its arguments, its locals and its CSP instance.
OwnState ==
    [activities |-> activities, start_date |-> start_date, end_date |-> end_date,
     constraints |-> constraints, pc |-> pc, variables |-> variables,
     domains |-> domains, assignment |-> assignment, stack |-> stack,
     ret |-> ret, output |-> output]

\* A call that has been made and has not yet executed line 38.
NewCall(acts, sd, ed, cfg) ==
    [activities |-> acts, start_date |-> sd, end_date |-> ed,
     constraints |-> cfg, pc |-> "start", variables |-> <<>>,
     domains |-> <<>>, assignment |-> <<>>, stack |-> <<>>,
     ret |-> "none", output |-> <<>>]

\* The running call is one that has just been made.
Starts(acts, sd, ed, cfg) ==
    /\ activities = acts
    /\ start_date = sd
    /\ end_date = ed
    /\ constraints = cfg
    /\ pc = "start"
    /\ variables = <<>>
    /\ domains = <<>>
    /\ assignment = <<>>
    /\ stack = <<>>
    /\ ret = "none"
    /\ output = <<>>

\* Mutation of Continue: the assignment is one object shared by all calls.
Continue_shared_assignment(c) ==
    /\ activities' = c.activities
    /\ start_date' = c.start_date
    /\ end_date' = c.end_date
    /\ constraints' = c.constraints
    /\ pc' = c.pc
    /\ variables' = c.variables
    /\ domains' = c.domains
    /\ assignment' = assignment
    /\ stack' = c.stack
    /\ ret' = c.ret
    /\ output' = c.output

\* The processor goes on with call c: its locals are those of its own frame
\* and its csp is the instance it constructed at line 67.
Continue(c) ==
    /\ activities' = c.activities
    /\ start_date' = c.start_date
    /\ end_date' = c.end_date
    /\ constraints' = c.constraints
    /\ pc' = c.pc
    /\ variables' = c.variables
    /\ domains' = c.domains
    /\ assignment' = c.assignment
    /\ stack' = c.stack
    /\ ret' = c.ret
    /\ output' = c.output

\* The running call stops where it is and call `to` goes on.
Switch(to) ==
    /\ to \in DOMAIN parked
    /\ parked' = [k \in (DOMAIN parked \ {to}) \cup {running} |->
                     IF k = running THEN OwnState ELSE parked[k]]
    /\ running' = to
    /\ Continue(parked[to])
    /\ UNCHANGED router

\* --- two calls whose steps interleave, then each input on its own ---
PairRecords ==
    {[name |-> "Museum", category |-> "sight"],
     [name |-> "Lunch", category |-> "food"]}

PairActivityLists == SeqsUpTo(PairRecords, PairMaxActs)

\* one day or two
PairEndDates == {2, 3}

\* one slot per day, food from slot 1 on or from a later slot on
PairConfigs ==
    {c \in ConstraintConfigs :
        /\ DOMAIN c = ConstraintKeys
        /\ c["max_per_day"] = 1
        /\ c["food_after_slot"] >= 1}

PairCalls ==
    {NewCall(acts, 2, ed, cfg) :
        acts \in PairActivityLists, ed \in PairEndDates, cfg \in PairConfigs}

Interleaved == {"A", "B"}

PairInit ==
    /\ NoRequestYet
    /\ \E a \in PairCalls, b \in PairCalls :
          /\ Starts(a.activities, a.start_date, a.end_date, a.constraints)
          /\ running = "A"
          /\ parked = [k \in {"B", "A alone", "B alone"} |->
                          IF k = "B" THEN b ELSE IF k = "A alone" THEN a ELSE b]

\* The thread of the running call is pre-empted, at any of its steps, by the
\* thread of the other call, which has not returned yet.
Preempt ==
    /\ running \in Interleaved
    /\ \E to \in Interleaved \ {running} :
          /\ parked[to].pc # "done"
          /\ Switch(to)

\* Both calls have returned: the input of A, then that of B, is run again
\* with no other call in progress.
RunAlone ==
    /\ pc = "done"
    /\ \A k \in Interleaved \ {running} : parked[k].pc = "done"
    /\ running # "B alone"
    /\ Switch(IF running \in Interleaved THEN "A alone" ELSE "B alone")

PairNext ==
    \/ Formulate
    \/ BacktrackComplete
    \/ BacktrackSelect
    \/ TryValue
    \/ LoopExhausted
    \/ ReturnToCaller
    \/ Finish
    \/ Preempt
    \/ RunAlone

PairSpec == PairInit /\ [][PairNext]_vars

\* --- one call, then a call with a configuration that spells out more ---
UnrecognizedKey == "budget"

\* the defaults as the specification gives them
StatedDefaults == [max_per_day |-> 3, food_after_slot |-> 1]

\* The configurations obtained from c by setting omitted options to their
\* stated defaults and by adding the unrecognized key.
Variants(c) ==
    {[k \in DOMAIN c \cup K |->
         IF k \in DOMAIN c THEN c[k]
         ELSE IF k = UnrecognizedKey THEN 0
         ELSE StatedDefaults[k]] :
        K \in (SUBSET ((ConstraintKeys \cup {UnrecognizedKey}) \ DOMAIN c)) \ {{}}}

DefaultsInit ==
    /\ NoRequestYet
    /\ \E acts \in SeqsUpTo(ActivityRecords, DefaultsMaxActs),
          ed \in PairEndDates, cfg \in ConstraintConfigs :
          /\ Starts(acts, 2, ed, cfg)
          /\ running = "first"
          /\ parked \in {[k \in {"second"} |-> NewCall(acts, 2, ed, c2)] :
                            c2 \in Variants(cfg)}

\* The first call has returned and the second is made.
CallAgain ==
    /\ pc = "done"
    /\ running = "first"
    /\ Switch("second")

DefaultsNext ==
    \/ Formulate
    \/ BacktrackComplete
    \/ BacktrackSelect
    \/ TryValue
    \/ LoopExhausted
    \/ ReturnToCaller
    \/ Finish
    \/ CallAgain

DefaultsSpec == DefaultsInit /\ [][DefaultsNext]_vars

\* ------------------------------------------------------------------------
\* routers/itineraries.py
\* ------------------------------------------------------------------------
\* The users get_current_user can return: two travellers and an admin.
Users ==
    {[user_id |-> 1, user_type |-> "traveler"],
     [user_id |-> 2, user_type |-> "traveler"],
     [user_id |-> 3, user_type |-> "admin"]}

UserIds == {u.user_id : u \in Users}

ItineraryIds == 1 .. MaxItineraryId

\* The cities table, which this router never changes, has one row; a request
\* names its city_id or one that has no row.
CityIds == {1}

RequestedCityIds == {1, 2}

Titles == {"a", "b"}

\* schemas.ItineraryCreate
CreatePayloads == [user_id : UserIds, title : Titles]

\* payload.dict(exclude_unset=True) of a schemas.ItineraryUpdate: the fields the
\* request sets, any subset of them
UpdateFields == {"user_id", "title"}

UpdatePayloads ==
    UNION {{[k \in K |-> IF k = "user_id" THEN u ELSE t] :
               u \in UserIds, t \in Titles} :
              K \in SUBSET UpdateFields}

\* db.query(models.Itinerary).get(itinerary_id) is not None
Found(itinerary_id) == \E r \in itineraries : r.itinerary_id = itinerary_id

\* db.query(models.Itinerary).get(itinerary_id)
Itinerary(itinerary_id) == CHOOSE r \in itineraries : r.itinerary_id = itinerary_id

\* Mutation of Permitted: every authenticated user passes.
Permitted_any_user(itinerary, current_user) == TRUE

\* _enforce_owner_or_admin does not raise
Permitted(itinerary, current_user) ==
    ~(itinerary.user_id # current_user.user_id /\ current_user.user_type # "admin")

\* The two calls every handler of /{itinerary_id} starts with: the status they
\* raise, or 0 when both pass.
Raised(itinerary_id, current_user) ==
    IF ~Found(itinerary_id) THEN 404
    ELSE IF ~Permitted(Itinerary(itinerary_id), current_user) THEN 403
    ELSE 0

\* for key, value in payload.items(): setattr(itinerary, key, value)
SetAttrs(itinerary, payload) ==
    [itinerary_id |-> itinerary.itinerary_id,
     user_id |-> IF "user_id" \in DOMAIN payload THEN payload["user_id"]
                 ELSE itinerary.user_id,
     title |-> IF "title" \in DOMAIN payload THEN payload["title"]
               ELSE itinerary.title]

Request(op, current_user, itinerary_id, city_id) ==
    [op |-> op, user |-> current_user, itinerary_id |-> itinerary_id,
     city_id |-> city_id]

\* Lines 26-38.  The table hands out an itinerary_id that is not in use.
create_itinerary ==
    \E current_user \in Users, payload \in CreatePayloads :
        /\ request' = Request("create", current_user, 0, 0)
        /\ IF payload.user_id # current_user.user_id
              /\ current_user.user_type # "admin"
           THEN /\ response' = 403
                /\ UNCHANGED <<itineraries, links>>
           ELSE \E id \in ItineraryIds :
                    /\ ~Found(id)
                    /\ itineraries' = itineraries \cup
                           {[itinerary_id |-> id, user_id |-> payload.user_id,
                             title |-> payload.title]}
                    /\ response' = 201
                    /\ UNCHANGED links
        /\ UNCHANGED <<call, callers>>

\* Lines 41-48.
list_itineraries ==
    \E current_user \in Users :
        /\ request' = Request("list", current_user, 0, 0)
        /\ response' = 200
        /\ UNCHANGED <<itineraries, links, call, callers>>

\* Lines 51-59.
get_itinerary ==
    \E current_user \in Users, itinerary_id \in ItineraryIds :
        /\ request' = Request("get", current_user, itinerary_id, 0)
        /\ response' = IF Raised(itinerary_id, current_user) # 0
                       THEN Raised(itinerary_id, current_user)
                       ELSE 200
        /\ UNCHANGED <<itineraries, links, call, callers>>

\* Lines 62-75.
update_itinerary ==
    \E current_user \in Users, itinerary_id \in ItineraryIds,
       payload \in UpdatePayloads :
        /\ request' = Request("update", current_user, itinerary_id, 0)
        /\ IF Raised(itinerary_id, current_user) # 0
           THEN /\ response' = Raised(itinerary_id, current_user)
                /\ UNCHANGED itineraries
           ELSE LET itinerary == Itinerary(itinerary_id)
                IN  /\ itineraries' = (itineraries \ {itinerary}) \cup
                                          {SetAttrs(itinerary, payload)}
                    /\ response' = 200
        /\ UNCHANGED <<links, call, callers>>

\* Lines 78-87.  Deleting the itinerary deletes its rows of the association
\* table with it.
delete_itinerary ==
    \E current_user \in Users, itinerary_id \in ItineraryIds :
        /\ request' = Request("delete", current_user, itinerary_id, 0)
        /\ IF Raised(itinerary_id, current_user) # 0
           THEN /\ response' = Raised(itinerary_id, current_user)
                /\ UNCHANGED <<itineraries, links>>
           ELSE /\ itineraries' = itineraries \ {Itinerary(itinerary_id)}
                /\ links' = {l \in links : l[1] # itinerary_id}
                /\ response' = 204
        /\ UNCHANGED <<call, callers>>

\* Lines 90-106.
add_city_to_itinerary ==
    \E current_user \in Users, itinerary_id \in ItineraryIds,
       city_id \in RequestedCityIds :
        /\ request' = Request("add_city", current_user, itinerary_id, city_id)
        /\ IF Raised(itinerary_id, current_user) # 0
           THEN /\ response' = Raised(itinerary_id, current_user)
                /\ UNCHANGED links
           ELSE IF city_id \notin CityIds
           THEN /\ response' = 404
                /\ UNCHANGED links
           ELSE IF <<itinerary_id, city_id>> \in links
           THEN /\ response' = 400
                /\ UNCHANGED links
           ELSE /\ links' = links \cup {<<itinerary_id, city_id>>}
                /\ response' = 201
        /\ UNCHANGED <<itineraries, call, callers>>

\* Lines 109-122.
remove_city_from_itinerary ==
    \E current_user \in Users, itinerary_id \in ItineraryIds,
       city_id \in RequestedCityIds :
        /\ request' = Request("remove_city", current_user, itinerary_id, city_id)
        /\ IF Raised(itinerary_id, current_user) # 0
           THEN /\ response' = Raised(itinerary_id, current_user)
                /\ UNCHANGED links
           ELSE IF city_id \notin CityIds \/ <<itinerary_id, city_id>> \notin links
           THEN /\ response' = 404
                /\ UNCHANGED links
           ELSE /\ links' = links \ {<<itinerary_id, city_id>>}
                /\ response' = 204
        /\ UNCHANGED <<itineraries, call, callers>>

\* Lines 127-141: the schedule is computed by generate_schedule from the
\* request alone; no table is read or written.
plan_itinerary ==
    \E current_user \in Users :
        /\ request' = Request("plan", current_user, 0, 0)
        /\ response' = 200
        /\ UNCHANGED <<itineraries, links, call, callers>>

\* The router before its first request; no call of generate_schedule is under way.
RouterInit ==
    /\ NoRequestYet
    /\ OneCall
    /\ activities = <<>>
    /\ start_date = 2
    /\ end_date = 2
    /\ constraints = <<>>
    /\ pc = "start"
    /\ variables = <<>>
    /\ domains = <<>>
    /\ assignment = <<>>
    /\ stack = <<>>
    /\ ret = "none"
    /\ output = <<>>

RouterNext ==
    \/ create_itinerary
    \/ list_itineraries
    \/ get_itinerary
    \/ update_itinerary
    \/ delete_itinerary
    \/ add_city_to_itinerary
    \/ remove_city_from_itinerary
    \/ plan_itinerary

RouterSpec == RouterInit /\ [][RouterNext]_vars

\* ------------------------------------------------------------------------
\* Vocabulary of the properties
\* ------------------------------------------------------------------------
Returned == pc = "done"

FoodAfterSlot == Get(constraints, "food_after_slot", DefaultFoodAfterSlot)

\* "Day1", "Day2", ...
DayKey(d) == StrDay \o FormatInt(d)

IsNoSolution(out) ==
    /\ Len(out) = 1
    /\ out[1][1] = StrMessage
    /\ out[1][2] = "No valid schedule found for given constraints"

\* A non-empty mapping from day labels to lists of activity records.
IsSchedule(out) ==
    /\ out # <<>>
    /\ \A i \in DOMAIN out :
          /\ Len(out[i][1]) > Len(StrDay)
          /\ SubSeq(out[i][1], 1, Len(StrDay)) = StrDay
          /\ \A k \in DOMAIN out[i][2] : out[i][2][k] \in ActivityRecords

ReturnedSchedule == Returned /\ IsSchedule(output)

\* The distinct activity values of the catalog.
Catalog == {activities[i] : i \in DOMAIN activities}

NonFood == {a \in Catalog : a.category # "food"}

\* Number of (day, slot) pairs of the request, and the k-th of them in
\* day-major, slot-minor order (both 1-based).
TotalSlots == IF num_days > 0 /\ max_per_day > 0 THEN num_days * max_per_day ELSE 0

SlotOf(k) == [day |-> ((k - 1) \div max_per_day) + 1,
              slot |-> ((k - 1) % max_per_day) + 1]

\* The complete assignments of catalog values to all slots that satisfy
\* no-duplicate and food-after-slot.  (No assignment without duplicates exists
\* when the slots outnumber the catalog's values.)
ValidAssignments ==
    IF TotalSlots > Cardinality(Catalog) THEN {}
    ELSE {f \in [1 .. TotalSlots -> Catalog] :
             /\ \A j, k \in 1 .. TotalSlots : j # k => f[j] # f[k]
             /\ \A k \in 1 .. TotalSlots :
                   f[k].category = "food" => SlotOf(k).slot >= FoodAfterSlot}

\* The returned schedule read as an assignment: the activity at position
\* `slot` of the list under the day's label.
Scheduled ==
    [k \in 1 .. TotalSlots |-> DictGet(output, DayKey(SlotOf(k).day))[SlotOf(k).slot]]

\* Position of an activity value in the supplied list (its first occurrence).
Position(v) ==
    CHOOSE i \in DOMAIN activities :
        activities[i] = v /\ \A j \in 1 .. (i - 1) : activities[j] # v

LexLeq(f, g) ==
    \/ \A k \in DOMAIN f : f[k] = g[k]
    \/ \E k \in DOMAIN f :
          /\ \A j \in 1 .. (k - 1) : f[j] = g[j]
          /\ Position(f[k]) < Position(g[k])

\* The returned schedule was reached after an undo: some slot k does not hold
\* the first value consistent with the slots before it, so the search assigned
\* that earlier value to slot k, failed below it and deleted it.
UndoneOnTheWay ==
    \E k \in 1 .. TotalSlots :
        \E v \in Catalog :
            /\ Position(v) < Position(Scheduled[k])
            /\ \A j \in 1 .. (k - 1) : Scheduled[j] # v
            /\ v.category = "food" => SlotOf(k).slot >= FoodAfterSlot

\* ------------------------------------------------------------------------
\* Properties
\* ------------------------------------------------------------------------

\* C1: in a returned schedule no activity value occupies two positions, within
\* a day or across days.
C1_NoActivityTwice ==
    ReturnedSchedule =>
        \A i, j \in DOMAIN output :
            \A k \in DOMAIN output[i][2], l \in DOMAIN output[j][2] :
                <<i, k>> # <<j, l>> => output[i][2][k] # output[j][2][l]

\* A two-day schedule was returned from a catalog that lists one value twice.
C1_Witness ==
    /\ ReturnedSchedule
    /\ Len(output) >= 2
    /\ \E p, q \in DOMAIN activities : p # q /\ activities[p] = activities[q]

\* C2: in a returned schedule every food activity sits at a position of its
\* day's list that is at least food_after_slot.
C2_FoodNotBeforeSlot ==
    ReturnedSchedule =>
        \A i \in DOMAIN output :
            \A k \in DOMAIN output[i][2] :
                output[i][2][k].category = "food" => k >= FoodAfterSlot

\* A schedule holding a food activity was returned although the first
\* supplied activity is food and food may not take slot 1.
C2_Witness ==
    /\ ReturnedSchedule
    /\ FoodAfterSlot >= 2
    /\ activities[1].category = "food"
    /\ \E i \in DOMAIN output :
          \E k \in DOMAIN output[i][2] : output[i][2][k].category = "food"

\* C3: the result is the no-solution outcome or a schedule with exactly
\* num_days day keys, one per day, each holding exactly max_per_day activities.
C3_NeverPartial ==
    Returned =>
        \/ IsNoSolution(output)
        \/ /\ IsSchedule(output)
           /\ Len(output) = num_days
           /\ \A d \in 1 .. num_days :
                 /\ DayKey(d) \in DictKeys(output)
                 /\ Len(DictGet(output, DayKey(d))) = max_per_day
           /\ \A n \in DOMAIN variables :
                 \E d \in 1 .. num_days :
                    \E k \in DOMAIN DictGet(output, DayKey(d)) :
                        variables[n] = VarName(d - 1, k - 1)

\* A schedule over two days with two slots each was returned.
C3_Witness ==
    /\ ReturnedSchedule
    /\ num_days = 2
    /\ max_per_day = 2

\* C4: for end_date >= start_date and max_per_day >= 1 a schedule is returned
\* iff a valid complete assignment exists, the no-solution outcome is returned
\* otherwise, and that outcome is non-empty and is no schedule.
C4_ScheduleIffSolvable ==
    (Returned /\ end_date >= start_date /\ max_per_day >= 1) =>
        /\ IsSchedule(output) <=> ValidAssignments # {}
        /\ IsNoSolution(output) <=> ValidAssignments = {}
        /\ IsNoSolution(output) => output # <<>> /\ ~IsSchedule(output)

\* The search was exhausted although the catalog has at least as many distinct
\* values as there are slots.
C4_Witness ==
    /\ Returned
    /\ end_date >= start_date
    /\ max_per_day >= 1
    /\ Cardinality(Catalog) >= TotalSlots
    /\ IsNoSolution(output)

\* C5: a returned schedule is a valid complete assignment and is the smallest
\* of them in lexicographic order, slots taken day-major then slot-minor and
\* values compared by their position in the supplied list.
C5_FirstFound ==
    ReturnedSchedule =>
        /\ Scheduled \in ValidAssignments
        /\ \A f \in ValidAssignments : LexLeq(Scheduled, f)

\* A schedule was returned that the search reached only after undoing an
\* assignment, and it is not the only valid one.
C5_Witness ==
    /\ ReturnedSchedule
    /\ UndoneOnTheWay
    /\ Cardinality(ValidAssignments) >= 2

\* C6 (as claimed): with end_date before start_date the call ends in neither a
\* schedule nor the no-solution outcome, and backtrack was never called.
C6_InvertedRangeRejected ==
    (Returned /\ end_date < start_date) =>
        /\ ~IsSchedule(output)
        /\ ~IsNoSolution(output)
        /\ ret = "none"

\* C7 (as claimed): with max_per_day or food_after_slot zero or negative the
\* call ends in neither a schedule nor the no-solution outcome, and backtrack
\* was never called.  Stated for the date ranges that are themselves valid.
C7_NonPositiveOptionRejected ==
    (Returned /\ end_date >= start_date
              /\ (max_per_day <= 0 \/ FoodAfterSlot <= 0)) =>
        /\ ~IsSchedule(output)
        /\ ~IsNoSolution(output)
        /\ ret = "none"

\* C8: when at least one slot is generated and the catalog has fewer distinct
\* values than num_days * max_per_day, the no-solution outcome is returned.
C8_TooFewActivities ==
    (Returned /\ Len(variables) >= 1
              /\ Cardinality(Catalog) < num_days * max_per_day) =>
        IsNoSolution(output)

\* The supplied list is as long as the number of slots, but not its set of
\* distinct values.
C8_Witness ==
    /\ Returned
    /\ Len(variables) >= 1
    /\ Cardinality(Catalog) < num_days * max_per_day
    /\ Len(activities) >= num_days * max_per_day
    /\ IsNoSolution(output)

\* C9: when food_after_slot exceeds max_per_day, the catalog has a food
\* activity and fewer distinct non-food activities than slots, the no-solution
\* outcome is returned.
C9_FoodHasNoSlot ==
    (Returned /\ FoodAfterSlot > max_per_day
              /\ Catalog \ NonFood # {}
              /\ Cardinality(NonFood) < num_days * max_per_day) =>
        IsNoSolution(output)

\* The non-food activities fill all slots but one and the catalog is large
\* enough for every slot.
C9_Witness ==
    /\ Returned
    /\ FoodAfterSlot > max_per_day
    /\ Catalog \ NonFood # {}
    /\ TotalSlots >= 2
    /\ Cardinality(NonFood) = TotalSlots - 1
    /\ Cardinality(Catalog) >= TotalSlots
    /\ IsNoSolution(output)

\* C10: the i-th key of a returned schedule is the label of day i, and the k-th
\* activity of its list is the one the search assigned to (day i, slot k).
C10_DayAndSlotOrder ==
    ReturnedSchedule =>
        \A i \in DOMAIN output :
            /\ output[i][1] = DayKey(i)
            /\ \A k \in DOMAIN output[i][2] :
                  /\ VarName(i - 1, k - 1) \in DictKeys(assignment)
                  /\ output[i][2][k] = DictGet(assignment, VarName(i - 1, k - 1))

\* A schedule over two days with two slots each was returned after the search
\* had deleted an entry of the assignment and set it again.
C10_Witness ==
    /\ ReturnedSchedule
    /\ Len(output) = 2
    /\ Len(output[1][2]) = 2
    /\ UndoneOnTheWay

\* ------------------------------------------------------------------------
\* Termination
\* ------------------------------------------------------------------------
\* The outermost backtrack invocation has returned, with every variable
\* assigned or with no valid complete assignment left to find.
SearchEnded ==
    /\ pc \in {"return", "done"}
    /\ stack = <<>>
    /\ \/ ret = "assignment" /\ AllAssigned(assignment, variables)
       \/ ret = "None" /\ ValidAssignments = {}

\* C11: every search eventually ends, with a complete assignment or with the
\* search space exhausted.
C11_SearchTerminates == <>SearchEnded

\* A search with more distinct activities than slots, one of which may take
\* the first slot, has ended in failure: values were assigned and deleted
\* again until none was left to try.
C11_Witness ==
    /\ SearchEnded
    /\ ret = "None"
    /\ TotalSlots >= 2
    /\ Cardinality(Catalog) > TotalSlots
    /\ NonFood # {}

\* ------------------------------------------------------------------------
\* Properties of the search in progress
\* ------------------------------------------------------------------------

\* C14: at every point of the search the assignment has one entry per assigned
\* variable, holds no activity value twice and no food activity at a slot
\* below food_after_slot, and every entry passes both constraints against the
\* entries inserted before it.
C14_AssignmentConsistent ==
    /\ \A i, j \in DOMAIN assignment :
          i # j => /\ assignment[i][1] # assignment[j][1]
                   /\ assignment[i][2] # assignment[j][2]
    /\ \A i \in DOMAIN assignment :
          /\ assignment[i][1] \in {variables[n] : n \in DOMAIN variables}
          /\ assignment[i][2].category = "food" =>
                 SlotNo(assignment[i][1]) >= FoodAfterSlot
          /\ no_duplicate(SubSeq(assignment, 1, i - 1),
                          assignment[i][1], assignment[i][2])
          /\ food_after_slot(SubSeq(assignment, 1, i - 1),
                             assignment[i][1], assignment[i][2])

\* In the middle of the search, after an undo, the assignment holds two
\* entries, one of them a food activity, and food may not take slot 1.
C14_Witness ==
    /\ pc = "loop"
    /\ ret = "None"
    /\ FoodAfterSlot >= 2
    /\ Len(assignment) >= 2
    /\ \E i \in DOMAIN assignment : assignment[i][2].category = "food"

\* C15: when an invocation returns failure the assignment is the one it was
\* entered with, and when its caller has then deleted its own tentative entry
\* the assignment is the one the caller was entered with, before the caller
\* tries its next value.
C15_FailureRestoresAssignment ==
    [][/\ (pc = "loop" /\ pc' = "return" /\ ret' = "None") =>
              assignment' = Top.entry
       /\ (pc = "return" /\ pc' = "loop") =>
              assignment' = stack'[Len(stack')].entry]_vars

\* An invocation entered with two entries in the assignment has returned
\* failure after trying values of its own.
C15_Witness ==
    /\ pc = "return"
    /\ ret = "None"
    /\ Len(stack) = 2
    /\ Len(assignment) = 2
    /\ TotalSlots = 4

\* Number of backtrack invocations that are active: the ones in their for
\* loop, and the one just called that has not yet tested line 20.
Depth == Len(stack) + (IF pc = "call" THEN 1 ELSE 0)

\* C16 (as claimed): the number of nested active backtrack invocations never
\* exceeds num_days * max_per_day.  Stated for the calls that generate at
\* least one variable.
C16_DepthAtMostVariables ==
    Len(variables) >= 1 => Depth <= num_days * max_per_day

\* C16 (amended): the number of nested active backtrack invocations never
\* exceeds the number of variables plus one.
C16_DepthAtMostVariablesPlusOne == Depth <= TotalSlots + 1

\* Every variable of a three-slot problem is assigned and the invocation that
\* finds the assignment complete is active inside the other three.
C16_Witness ==
    /\ TotalSlots = 3
    /\ Len(variables) = 3
    /\ Depth = 4

\* C17: the entries of the assignment are, in insertion order, the first
\* variables of the enumeration, and an undo removes the entry inserted last.
C17_PrefixInOrder ==
    /\ Len(assignment) <= Len(variables)
    /\ \A i \in DOMAIN assignment : assignment[i][1] = variables[i]
    /\ (pc = "return" /\ stack # <<>> /\ ~Truthy(ret, assignment)) =>
          /\ assignment # <<>>
          /\ assignment[Len(assignment)][1] = Top.var

\* A failed invocation has returned to a caller that is about to delete the
\* third entry of the assignment.
C17_Witness ==
    /\ pc = "return"
    /\ ret = "None"
    /\ stack # <<>>
    /\ Len(assignment) = 3
    /\ num_days = 2

\* ------------------------------------------------------------------------
\* Properties of several calls
\* ------------------------------------------------------------------------
\* C12: while two calls interleave, a step of the running call changes nothing
\* that belongs to another call, a call that is resumed finds everything it
\* owns as it left it, and each call returns what a call on the same input
\* returns when no other call is in progress.
C12_NoInterference ==
    [][/\ running' = running => parked' = parked
       /\ running' # running =>
              /\ parked'[running] = OwnState
              /\ OwnState' = parked[running']
              /\ \A k \in DOMAIN parked \ {running'} : parked'[k] = parked[k]
       /\ (running' = "A alone" /\ pc' = "done") =>
              output' = parked'["A"].output
       /\ (running' = "B alone" /\ pc' = "done") =>
              output' = parked'["B"].output]_vars

\* Call B, given other activities than call A, is about to delete an entry of
\* its assignment while call A is stopped with an entry in its own.
C12_Witness ==
    /\ running = "B"
    /\ pc = "return"
    /\ ret = "None"
    /\ stack # <<>>
    /\ parked["A"].pc = "call"
    /\ Len(parked["A"].assignment) = 1
    /\ parked["A"].activities # activities
    /\ parked["A"].assignment # assignment

\* C13: a call whose configuration spells out the stated defaults of the
\* options another configuration omits, or adds an unrecognized key to it,
\* returns what the call with that other configuration returns.
C13_DefaultsAndUnknownKeys ==
    (/\ running = "second"
     /\ pc = "done"
     /\ activities = parked["first"].activities
     /\ start_date = parked["first"].start_date
     /\ end_date = parked["first"].end_date
     /\ constraints \in Variants(parked["first"].constraints)) =>
        output = parked["first"].output

\* Both calls returned a schedule of three activities on one day; the first
\* omitted max_per_day, the second set it and added the unrecognized key.
C13_Witness ==
    /\ running = "second"
    /\ pc = "done"
    /\ "max_per_day" \notin DOMAIN parked["first"].constraints
    /\ "max_per_day" \in DOMAIN constraints
    /\ UnrecognizedKey \in DOMAIN constraints
    /\ IsSchedule(output)
    /\ Len(output[1][2]) = 3

\* ------------------------------------------------------------------------
\* Properties of the itineraries router
\* ------------------------------------------------------------------------
ItineraryOps == {"get", "update", "delete", "add_city", "remove_city"}

\* The user of the request handled last is neither the owner of the itinerary
\* it names nor an admin.
Stranger ==
    /\ Found(request.itinerary_id)
    /\ Itinerary(request.itinerary_id).user_id # request.user.user_id
    /\ request.user.user_type # "admin"

\* C18: a get, update, delete, add-city or remove-city request naming an
\* itinerary that exists, made by a user who is neither its owner nor an
\* admin, is answered 403 and changes no table; one naming an itinerary that
\* does not exist is answered 404, whoever makes it, and changes no table.
C18_StrangerForbidden ==
    [][request'.op \in ItineraryOps =>
          LET id == request'.itinerary_id
              user == request'.user
          IN  /\ ~Found(id) =>
                    /\ response' = 404
                    /\ UNCHANGED <<itineraries, links>>
              /\ (/\ Found(id)
                  /\ Itinerary(id).user_id # user.user_id
                  /\ user.user_type # "admin") =>
                    /\ response' = 403
                    /\ UNCHANGED <<itineraries, links>>]_vars

\* A traveller asked to delete an itinerary of another traveller that has a
\* city linked to it, while a second itinerary exists, and was answered 403.
C18_Witness ==
    /\ request.op = "delete"
    /\ Stranger
    /\ response = 403
    /\ \E l \in links : l[1] = request.itinerary_id
    /\ Cardinality(itineraries) = 2

====
